---- MODULE Spec2Model ----
(***************************************************************************)
(* Model of app.py: the period resolver (get_period_from_now), the three   *)
(* timetable queries (check_pe, get_today_pe_summary,                      *)
(* get_today_pe_periods_for_class) and the page run (main).                *)
(*                                                                         *)
(* Text: the TLA+ tools accept ASCII strings only, so every Korean string  *)
(* of the source is written as a sequence of ASCII-named characters:       *)
(*   PE_KEYWORD  = <<"che","yuk">>,  the weekday names "Mon" .. "Sun" stand *)
(*   for WEEKDAY_MAP's values, <<"gyo","si">> is the period suffix.        *)
(* A subject label, a "HH:MM" string and a summary cell are sequences of   *)
(* characters; substring search, parsing and formatting work on them.      *)
(*                                                                         *)
(* Time: datetime.time values are <<hour, minute>> pairs compared          *)
(* lexicographically, as Python compares them.  Every bound of the         *)
(* schedule is a whole minute, so the seconds of "now" never decide a      *)
(* comparison and are left out.                                            *)
(***************************************************************************)
EXTENDS Naturals, Sequences, FiniteSets

VARIABLES
    schedule,       \* module global PERIOD_SCHEDULE
    keyword,        \* module global PE_KEYWORD
    cache,          \* st.cache_data store: the frame load_timetable returned
    df_timetable,   \* main: the loaded DataFrame (a sequence of rows), once bound
    now_kst,        \* main: the current time [weekday, hour, minute], once bound
    pc,             \* main: position in the page run
    selected_grade, \* main: value of the grade selectbox
    selected_class, \* main: value of the class selectbox
    button,         \* main: whether st.button returned True in this run
    screen,         \* main: the elements written to the page in this run
    calls,          \* the core calls made in this run, with their results
    last,           \* direct calls: the latest call [fn, args, res]
    prev            \* direct calls: the result of the call before it, when
                    \* that call had the same function and arguments

vars == <<schedule, keyword, cache, df_timetable, now_kst, pc, selected_grade,
          selected_class, button, screen, calls, last, prev>>

\* Optional values: None is the empty sequence, a value v is <<v>>
None == <<>>
Some(v) == <<v>>

----------------------------------------------------------------------------
(* Bounds of the model *)

\* longest schedule the resolver is driven with, besides PERIOD_SCHEDULE
MaxSched == 2
\* most rows of a timetable
MaxRows == 2

----------------------------------------------------------------------------
(* 1. Configuration *)

HM(a, b, c, d) == <<a, b, ":", c, d>>

\* the schedule with the start of period 2 mistyped: it overlaps period 1
PERIOD_SCHEDULE_Overlap == <<
    [period |-> 1, start |-> HM("0","8","5","0"), end |-> HM("0","9","4","0")],
    [period |-> 2, start |-> HM("0","9","3","0"), end |-> HM("1","0","4","0")],
    [period |-> 3, start |-> HM("1","0","5","0"), end |-> HM("1","1","4","0")],
    [period |-> 4, start |-> HM("1","1","5","0"), end |-> HM("1","2","4","0")],
    [period |-> 5, start |-> HM("1","3","4","0"), end |-> HM("1","4","3","0")],
    [period |-> 6, start |-> HM("1","4","4","0"), end |-> HM("1","5","3","0")],
    [period |-> 7, start |-> HM("1","5","4","0"), end |-> HM("1","6","3","0")] >>

PERIOD_SCHEDULE == <<
    [period |-> 1, start |-> HM("0","8","5","0"), end |-> HM("0","9","4","0")],
    [period |-> 2, start |-> HM("0","9","5","0"), end |-> HM("1","0","4","0")],
    [period |-> 3, start |-> HM("1","0","5","0"), end |-> HM("1","1","4","0")],
    [period |-> 4, start |-> HM("1","1","5","0"), end |-> HM("1","2","4","0")],
    [period |-> 5, start |-> HM("1","3","4","0"), end |-> HM("1","4","3","0")],
    [period |-> 6, start |-> HM("1","4","4","0"), end |-> HM("1","5","3","0")],
    [period |-> 7, start |-> HM("1","5","4","0"), end |-> HM("1","6","3","0")] >>

PE_KEYWORD == <<"che", "yuk">>

WEEKDAY_MAP == <<"Mon", "Tue", "Wed", "Thu", "Fri", "Sat", "Sun">>

\* the list main tests weekday_name against (lines 179, 217, 272)
SchoolDays == {"Mon", "Tue", "Wed", "Thu", "Fri"}

----------------------------------------------------------------------------
(* 2. Period resolver *)

Digits == <<"0", "1", "2", "3", "4", "5", "6", "7", "8", "9">>

DigitVal(ch) == (CHOOSE i \in 1..10 : Digits[i] = ch) - 1

\* datetime.strptime(hm_str, "%H:%M").time()
parse_hm(hm_str) ==
    << 10 * DigitVal(hm_str[1]) + DigitVal(hm_str[2]),
       10 * DigitVal(hm_str[4]) + DigitVal(hm_str[5]) >>

\* a <= b and a < b on datetime.time
TimeLE(a, b) == a[1] < b[1] \/ (a[1] = b[1] /\ a[2] <= b[2])
TimeLT(a, b) == a[1] < b[1] \/ (a[1] = b[1] /\ a[2] < b[2])

\* now.time()
TimeOf(now) == <<now.hour, now.minute>>

\* the test of line 84; first with the end of the window included
InWindow_EndInclusive(item, current_t) ==
    /\ TimeLE(parse_hm(item.start), current_t)
    /\ TimeLE(current_t, parse_hm(item.end))

InWindow(item, current_t) ==
    /\ TimeLE(parse_hm(item.start), current_t)
    /\ TimeLT(current_t, parse_hm(item.end))

\* the loop of lines 81-87, from item i on
RECURSIVE ScanSchedule(_, _, _)
ScanSchedule(sched, i, current_t) ==
    IF i > Len(sched) THEN None
    ELSE IF InWindow(sched[i], current_t) THEN Some(sched[i].period)
         ELSE ScanSchedule(sched, i + 1, current_t)

get_period_from_now(now) == ScanSchedule(schedule, 1, TimeOf(now))

----------------------------------------------------------------------------
(* 3. Timetable queries *)

\* A timetable row: [grade, class_no, weekday, period, subject], the columns
\* load_timetable coerces (lines 65-69).

\* PE_KEYWORD in subj  /  Series.str.contains(PE_KEYWORD): the keyword has no
\* regular-expression metacharacter, so both are substring search.
Contains(kw, subj) ==
    \E i \in 0..Len(subj) :
        /\ i + Len(kw) <= Len(subj)
        /\ SubSeq(subj, i + 1, i + Len(kw)) = kw

\* any(... for subj in sub_df[subject])
RECURSIVE AnySubject(_, _)
AnySubject(kw, sub_df) ==
    IF sub_df = <<>> THEN FALSE
    ELSE Contains(kw, Head(sub_df).subject) \/ AnySubject(kw, Tail(sub_df))

\* check_pe; first with all() for any()
check_pe_AllRows(df, grade, class_no, weekday, period) ==
    LET cond(r) == /\ r.grade = grade
                   /\ r.class_no = class_no
                   /\ r.weekday = weekday
                   /\ r.period = period
        sub_df == SelectSeq(df, cond)
    IN  IF sub_df = <<>> THEN FALSE
        ELSE \A i \in 1..Len(sub_df) : Contains(keyword, sub_df[i].subject)

check_pe(df, grade, class_no, weekday, period) ==
    LET cond(r) == /\ r.grade = grade
                   /\ r.class_no = class_no
                   /\ r.weekday = weekday
                   /\ r.period = period
        sub_df == SelectSeq(df, cond)
    IN  IF sub_df = <<>> THEN FALSE
        ELSE AnySubject(keyword, sub_df)

\* Series.unique(): the distinct values, in order of first appearance
RECURSIVE Unique(_)
Unique(s) ==
    IF s = <<>> THEN <<>>
    ELSE LET init == Unique(SubSeq(s, 1, Len(s) - 1))
             x == s[Len(s)]
         IN  IF \E i \in 1..Len(init) : init[i] = x THEN init
             ELSE Append(init, x)

\* sorted() on a list of integers
RECURSIVE InsertInt(_, _)
InsertInt(x, s) ==
    IF s = <<>> THEN <<x>>
    ELSE IF x < Head(s) THEN <<x>> \o s
         ELSE <<Head(s)>> \o InsertInt(x, Tail(s))

RECURSIVE sorted(_)
sorted(s) ==
    IF s = <<>> THEN <<>>
    ELSE InsertInt(s[Len(s)], sorted(SubSeq(s, 1, Len(s) - 1)))

\* the column of period numbers of a frame
Periods(sub) == [i \in 1..Len(sub) |-> sub[i].period]

\* get_today_pe_periods_for_class; first without sorted()
get_today_pe_periods_for_class_NoSort(df, grade, class_no, weekday) ==
    LET cond(r) == /\ r.grade = grade
                   /\ r.class_no = class_no
                   /\ r.weekday = weekday
                   /\ Contains(keyword, r.subject)
        sub == SelectSeq(df, cond)
    IN  IF sub = <<>> THEN <<>>
        ELSE Unique(Periods(sub))

\* with the label compared to the keyword instead of searched for it
get_today_pe_periods_for_class_ExactLabel(df, grade, class_no, weekday) ==
    LET cond(r) == /\ r.grade = grade
                   /\ r.class_no = class_no
                   /\ r.weekday = weekday
                   /\ r.subject = keyword
        sub == SelectSeq(df, cond)
    IN  IF sub = <<>> THEN <<>>
        ELSE sorted(Unique(Periods(sub)))

get_today_pe_periods_for_class(df, grade, class_no, weekday) ==
    LET cond(r) == /\ r.grade = grade
                   /\ r.class_no = class_no
                   /\ r.weekday = weekday
                   /\ Contains(keyword, r.subject)
        sub == SelectSeq(df, cond)
    IN  IF sub = <<>> THEN <<>>
        ELSE sorted(Unique(Periods(sub)))

\* str(p) of a non-negative integer
RECURSIVE Str(_)
Str(n) ==
    IF n < 10 THEN <<Digits[n + 1]>>
    ELSE Str(n \div 10) \o <<Digits[(n % 10) + 1]>>

\* ", ".join(str(p) + period-suffix for p in ps)
RECURSIVE JoinPeriods(_)
JoinPeriods(ps) ==
    IF ps = <<>> THEN <<>>
    ELSE IF Len(ps) = 1 THEN Str(ps[1]) \o <<"gyo", "si">>
         ELSE Str(ps[1]) \o <<"gyo", "si">> \o <<",", " ">> \o JoinPeriods(Tail(ps))

\* the order of group keys (grade, class_no) in a groupby result
GroupKeyLess(a, b) ==
    a.grade < b.grade \/ (a.grade = b.grade /\ a.class_no < b.class_no)

\* groupby(sort=True): the groups in ascending key order
RECURSIVE InsertGroup(_, _)
InsertGroup(x, s) ==
    IF s = <<>> THEN <<x>>
    ELSE IF GroupKeyLess(x, Head(s)) THEN <<x>> \o s
         ELSE <<Head(s)>> \o InsertGroup(x, Tail(s))

RECURSIVE SortGroups(_)
SortGroups(groups) ==
    IF groups = <<>> THEN <<>>
    ELSE InsertGroup(groups[Len(groups)],
                     SortGroups(SubSeq(groups, 1, Len(groups) - 1)))

\* sub.groupby([grade, class_no])[period]: one group per distinct key, in
\* ascending key order, each holding the periods of its rows in row order
GroupBy(sub) ==
    LET keys == Unique([i \in 1..Len(sub) |->
                            [grade |-> sub[i].grade, class_no |-> sub[i].class_no]])
        InGroup(k) == LET same(r) == r.grade = k.grade /\ r.class_no = k.class_no
                      IN  SelectSeq(sub, same)
    IN  SortGroups([i \in 1..Len(keys) |->
                       [grade |-> keys[i].grade, class_no |-> keys[i].class_no,
                        periods |-> Periods(InGroup(keys[i]))]])

\* the column order of sort_values([grade, class_no]) (line 119); first with
\* the two columns swapped
KeyLess_ClassFirst(a, b) ==
    a.class_no < b.class_no \/ (a.class_no = b.class_no /\ a.grade < b.grade)

KeyLess(a, b) ==
    a.grade < b.grade \/ (a.grade = b.grade /\ a.class_no < b.class_no)

\* .sort_values([grade, class_no]).reset_index(drop=True): ascending and
\* stable; the keys of the rows are distinct, so the stability of the sort
\* is not observable
RECURSIVE InsertByKey(_, _)
InsertByKey(x, s) ==
    IF s = <<>> THEN <<x>>
    ELSE IF KeyLess(x, Head(s)) THEN <<x>> \o s
         ELSE <<Head(s)>> \o InsertByKey(x, Tail(s))

RECURSIVE sort_values(_)
sort_values(rows) ==
    IF rows = <<>> THEN <<>>
    ELSE InsertByKey(rows[Len(rows)], sort_values(SubSeq(rows, 1, Len(rows) - 1)))

\* the result frame: rows [grade, class_no, pe_periods], pe_periods the
\* text of the third column; no rows when nothing matches (line 112)
get_today_pe_summary(df, weekday) ==
    LET cond(r) == r.weekday = weekday /\ Contains(keyword, r.subject)
        sub == SelectSeq(df, cond)
        groups == GroupBy(sub)
        grouped == [i \in 1..Len(groups) |->
                       [grade |-> groups[i].grade, class_no |-> groups[i].class_no,
                        pe_periods |-> JoinPeriods(sorted(Unique(groups[i].periods)))]]
    IN  IF sub = <<>> THEN <<>>
        ELSE sort_values(grouped)

----------------------------------------------------------------------------
(* 4. Inputs *)

SeqsUpTo(S, n) == UNION {[1..k -> S] : k \in 0..n}

\* schedules given to the resolver: the configured one and every list of at
\* most MaxSched windows over three clock strings (overlapping, reversed and
\* empty windows included)
ClockStrings == {HM("0","8","5","0"), HM("0","9","4","0"), HM("0","9","5","0")}
Windows == [period : {1, 2}, start : ClockStrings, end : ClockStrings]
ScheduleInputs == {PERIOD_SCHEDULE} \cup SeqsUpTo(Windows, MaxSched)

\* every minute of a day, and the minutes around the bounds of the windows
AllNows == [weekday : {0}, hour : 0..23, minute : 0..59]
BoundaryNows == [weekday : {0}, hour : {8, 9}, minute : {39, 40, 49, 50}]

\* subject labels: the keyword, the keyword with a suffix, with a prefix,
\* its two characters reversed, and another subject
PE == <<"che", "yuk">>
PE_Soccer == <<"che", "yuk", "(", "chuk", "gu", ")">>
Indoor_PE == <<"sil", "nae", "che", "yuk">>
EP == <<"yuk", "che">>
Math == <<"su", "hak">>

Row(g, c, w, p, subj) ==
    [grade |-> g, class_no |-> c, weekday |-> w, period |-> p, subject |-> subj]

\* the rows timetables are made of: conflicting rows for one key, two
\* periods of one class, a two-digit period, classes of two grades, two
\* weekdays
RowPool == {
    Row(1, 1, "Mon", 1, PE),
    Row(1, 1, "Mon", 1, Math),
    Row(1, 1, "Mon", 2, PE_Soccer),
    Row(1, 1, "Mon", 10, PE),
    Row(1, 2, "Mon", 1, Indoor_PE),
    Row(2, 1, "Mon", 2, PE),
    Row(2, 1, "Mon", 1, EP),
    Row(1, 1, "Tue", 1, PE) }

\* every sequence of at most MaxRows rows: any order, duplicates included
Timetables == SeqsUpTo(RowPool, MaxRows)

GradeArgs == {1, 2}
ClassArgs == {1, 2}
WeekdayArgs == {"Mon", "Tue"}
PeriodArgs == {1, 2, 10}

Range(s) == {s[i] : i \in DOMAIN s}

----------------------------------------------------------------------------
(* 5. The core called directly: one action per function *)

NoCall == [fn |-> "none", args |-> <<>>, res |-> <<>>]

\* the call is recorded in last; prev keeps the result of the call before it
\* when that was the same call
Record(fn, args, res) ==
    /\ last' = [fn |-> fn, args |-> args, res |-> res]
    /\ prev' = IF last.fn = fn /\ last.args = args THEN Some(last.res) ELSE None

PageIdle ==
    UNCHANGED <<cache, now_kst, pc, selected_grade, selected_class, button,
                screen, calls>>

\* the clock of a direct call: the one fixed at the start when there is one,
\* else any of the boundary minutes
NowArgs == IF now_kst = None THEN BoundaryNows ELSE {now_kst[1]}

\* a call of get_period_from_now
CallResolver ==
    /\ pc = "idle"
    /\ \E now \in NowArgs :
          Record("get_period_from_now", <<now>>, get_period_from_now(now))
    /\ UNCHANGED <<schedule, keyword, df_timetable>>
    /\ PageIdle

\* a call of check_pe; first with the filter applied to df in place
CallCheckPe_DropsRows ==
    /\ pc = "idle"
    /\ \E g \in GradeArgs, c \in ClassArgs, w \in WeekdayArgs, p \in PeriodArgs :
          /\ Record("check_pe", <<g, c, w, p>>, check_pe(df_timetable[1], g, c, w, p))
          /\ LET cond(r) == r.grade = g /\ r.class_no = c /\ r.weekday = w /\ r.period = p
             IN  df_timetable' = Some(SelectSeq(df_timetable[1], cond))
    /\ UNCHANGED <<schedule, keyword>>
    /\ PageIdle

CallCheckPe ==
    /\ pc = "idle"
    /\ \E g \in GradeArgs, c \in ClassArgs, w \in WeekdayArgs, p \in PeriodArgs :
          Record("check_pe", <<g, c, w, p>>, check_pe(df_timetable[1], g, c, w, p))
    /\ UNCHANGED <<schedule, keyword, df_timetable>>
    /\ PageIdle

\* a call of get_today_pe_summary
CallSummary ==
    /\ pc = "idle"
    /\ \E w \in WeekdayArgs :
          Record("get_today_pe_summary", <<w>>, get_today_pe_summary(df_timetable[1], w))
    /\ UNCHANGED <<schedule, keyword, df_timetable>>
    /\ PageIdle

\* a call of get_today_pe_periods_for_class
CallPeriodsForClass ==
    /\ pc = "idle"
    /\ \E g \in GradeArgs, c \in ClassArgs, w \in WeekdayArgs :
          Record("get_today_pe_periods_for_class", <<g, c, w>>,
                 get_today_pe_periods_for_class(df_timetable[1], g, c, w))
    /\ UNCHANGED <<schedule, keyword, df_timetable>>
    /\ PageIdle

InitIdle ==
    /\ keyword = PE_KEYWORD
    /\ pc = "idle"
    /\ selected_grade = None
    /\ selected_class = None
    /\ button = FALSE
    /\ screen = {}
    /\ calls = <<>>
    /\ last = NoCall
    /\ prev = None

\* the resolver on every input schedule: the configured schedule at every
\* minute of the day, the others at the boundary minutes
InitResolver ==
    /\ schedule \in ScheduleInputs
    /\ cache = None
    /\ now_kst \in {Some(n) : n \in IF schedule = PERIOD_SCHEDULE THEN AllNows
                                                                 ELSE BoundaryNows}
    /\ df_timetable = None
    /\ InitIdle

NextResolver == CallResolver

SpecResolver == InitResolver /\ [][NextResolver]_vars

\* the resolver and the queries on every timetable, under the configuration;
\* cache keeps the frame as loaded, df_timetable is the frame the calls get
InitQuery ==
    /\ schedule = PERIOD_SCHEDULE
    /\ now_kst = None
    /\ df_timetable \in {Some(t) : t \in Timetables}
    /\ cache = df_timetable
    /\ InitIdle

NextQuery == CallResolver \/ CallCheckPe \/ CallSummary \/ CallPeriodsForClass

SpecQuery == InitQuery /\ [][NextQuery]_vars

----------------------------------------------------------------------------
(* 6. The page run: main *)

\* the clock of a page run: every weekday 0..6, at 08:49 (before the first
\* window), 08:50 (period 1), 09:49 (between two windows), 09:50 (period 2)
PageNows == [weekday : 0..6, hour : {8, 9}, minute : {49, 50}]

\* weekday_name = WEEKDAY_MAP[now_kst.weekday()]
WeekdayName(now) == WEEKDAY_MAP[now.weekday + 1]

\* grades = sorted(df[grade].unique())
Grades(df) == sorted(Unique([i \in 1..Len(df) |-> df[i].grade]))

\* classes_by_grade[g] = sorted(df[df[grade] == g][class_no].unique())
ClassesByGrade(df, g) ==
    LET of_g(r) == r.grade = g
        sub == SelectSeq(df, of_g)
    IN  sorted(Unique([i \in 1..Len(sub) |-> sub[i].class_no]))

Call(fn, args, res) == [fn |-> fn, args |-> args, res |-> res]

DriverIdle == UNCHANGED <<last, prev>>

\* lines 159-160, load_timetable returning the cached frame
LoadCached ==
    /\ pc = "load"
    /\ cache /= None
    /\ df_timetable' = cache
    /\ pc' = "clock"
    /\ UNCHANGED <<schedule, keyword, cache, now_kst, selected_grade,
                   selected_class, button, screen, calls>>
    /\ DriverIdle

\* lines 159-160, load_timetable reading the file: any timetable
LoadFile ==
    /\ pc = "load"
    /\ cache = None
    /\ \E t \in Timetables :
          /\ cache' = Some(t)
          /\ df_timetable' = Some(t)
    /\ pc' = "clock"
    /\ UNCHANGED <<schedule, keyword, now_kst, selected_grade, selected_class,
                   button, screen, calls>>
    /\ DriverIdle

\* lines 161-164 with st.stop() left out
LoadFail_NoStop ==
    /\ pc = "load"
    /\ cache = None
    /\ screen' = screen \cup {"load_error"}
    /\ pc' = "clock"
    /\ UNCHANGED <<schedule, keyword, cache, df_timetable, now_kst,
                   selected_grade, selected_class, button, calls>>
    /\ DriverIdle

\* lines 161-164: load_timetable raises, the error is shown, st.stop() ends
\* the run; nothing is cached
LoadFail ==
    /\ pc = "load"
    /\ cache = None
    /\ screen' = screen \cup {"load_error"}
    /\ pc' = "stopped"
    /\ UNCHANGED <<schedule, keyword, cache, df_timetable, now_kst,
                   selected_grade, selected_class, button, calls>>
    /\ DriverIdle

\* lines 174-189: the clock is read and the current period announced
Clock ==
    /\ pc = "clock"
    /\ \E now \in PageNows :
          /\ now_kst' = Some(now)
          /\ IF WeekdayName(now) \in SchoolDays
             THEN LET current_period == get_period_from_now(now)
                  IN  /\ calls' = Append(calls,
                             Call("get_period_from_now", <<now>>, current_period))
                      /\ screen' = screen \cup
                             {IF current_period /= None THEN "period_note"
                                                        ELSE "no_period_note"}
             ELSE /\ calls' = calls
                  /\ screen' = screen \cup {"weekend_note"}
    /\ pc' = "select"
    /\ UNCHANGED <<schedule, keyword, cache, df_timetable, selected_grade,
                   selected_class, button>>
    /\ DriverIdle

\* lines 204-212: the user's choice among the grades of the timetable and
\* the classes of that grade
SelectClass ==
    /\ pc = "select"
    /\ \E g \in Range(Grades(df_timetable[1])) :
       \E c \in Range(ClassesByGrade(df_timetable[1], g)) :
          /\ selected_grade' = Some(g)
          /\ selected_class' = Some(c)
    /\ screen' = screen \cup {"selected_class"}
    /\ pc' = "button"
    /\ UNCHANGED <<schedule, keyword, cache, df_timetable, now_kst, button, calls>>
    /\ DriverIdle

\* lines 204-208 on a timetable without rows: grades is empty, the grade
\* selectbox has no option and returns None, classes_by_grade[None] raises
\* KeyError, which ends the run with the exception shown
SelectNoGrade ==
    /\ pc = "select"
    /\ Grades(df_timetable[1]) = <<>>
    /\ screen' = screen \cup {"exception"}
    /\ pc' = "crashed"
    /\ UNCHANGED <<schedule, keyword, cache, df_timetable, now_kst,
                   selected_grade, selected_class, button, calls>>
    /\ DriverIdle

\* lines 217-218
WeekendWarning ==
    /\ pc = "button"
    /\ WeekdayName(now_kst[1]) \notin SchoolDays
    /\ screen' = screen \cup {"weekend_warning"}
    /\ pc' = "summary"
    /\ UNCHANGED <<schedule, keyword, cache, df_timetable, now_kst,
                   selected_grade, selected_class, button, calls>>
    /\ DriverIdle

\* line 220, the button not pressed
ButtonIdle ==
    /\ pc = "button"
    /\ WeekdayName(now_kst[1]) \in SchoolDays
    /\ button' = FALSE
    /\ pc' = "summary"
    /\ UNCHANGED <<schedule, keyword, cache, df_timetable, now_kst,
                   selected_grade, selected_class, screen, calls>>
    /\ DriverIdle

\* lines 220-266, the button pressed
ButtonPressed ==
    /\ pc = "button"
    /\ WeekdayName(now_kst[1]) \in SchoolDays
    /\ button' = TRUE
    /\ LET now == now_kst[1]
           df == df_timetable[1]
           g == selected_grade[1]
           c == selected_class[1]
           w == WeekdayName(now)
           current_period == get_period_from_now(now)
           c1 == Call("get_period_from_now", <<now>>, current_period)
       IN  IF current_period = None
           THEN /\ calls' = Append(calls, c1)
                /\ screen' = screen \cup {"no_period_warning"}
           ELSE LET is_pe == check_pe(df, g, c, w, current_period[1])
                    today_periods == get_today_pe_periods_for_class(df, g, c, w)
                IN  /\ calls' = calls \o <<c1,
                           Call("check_pe", <<g, c, w, current_period[1]>>, is_pe),
                           Call("get_today_pe_periods_for_class", <<g, c, w>>,
                                today_periods)>>
                    /\ screen' = screen
                           \cup {IF is_pe THEN "pe_now" ELSE "not_pe_now"}
                           \cup {IF today_periods /= <<>> THEN "pe_periods_today"
                                                          ELSE "no_pe_today"}
    /\ pc' = "summary"
    /\ UNCHANGED <<schedule, keyword, cache, df_timetable, now_kst,
                   selected_grade, selected_class>>
    /\ DriverIdle

\* lines 272-289 with the weekday test left out
RightColumn_NoWeekdayTest ==
    /\ pc = "summary"
    /\ LET w == WeekdayName(now_kst[1])
           df_today_pe == get_today_pe_summary(df_timetable[1], w)
       IN  /\ calls' = Append(calls, Call("get_today_pe_summary", <<w>>, df_today_pe))
           /\ screen' = screen \cup
                  {IF df_today_pe = <<>> THEN "no_pe_summary" ELSE "summary_table"}
    /\ pc' = "done"
    /\ UNCHANGED <<schedule, keyword, cache, df_timetable, now_kst,
                   selected_grade, selected_class, button>>
    /\ DriverIdle

\* lines 272-289: the summary of the day
RightColumn ==
    /\ pc = "summary"
    /\ LET w == WeekdayName(now_kst[1])
           df_today_pe == get_today_pe_summary(df_timetable[1], w)
       IN  IF w \in SchoolDays
           THEN /\ calls' = Append(calls,
                       Call("get_today_pe_summary", <<w>>, df_today_pe))
                /\ screen' = screen \cup
                       {IF df_today_pe = <<>> THEN "no_pe_summary" ELSE "summary_table"}
           ELSE /\ calls' = calls
                /\ screen' = screen \cup {"weekend_summary"}
    /\ pc' = "done"
    /\ UNCHANGED <<schedule, keyword, cache, df_timetable, now_kst,
                   selected_grade, selected_class, button>>
    /\ DriverIdle

Ended == pc \in {"done", "stopped", "crashed"}

\* the next run of the script: the locals and the page start afresh, the
\* cache is kept
Rerun ==
    /\ Ended
    /\ pc' = "load"
    /\ df_timetable' = None
    /\ now_kst' = None
    /\ selected_grade' = None
    /\ selected_class' = None
    /\ button' = FALSE
    /\ screen' = {}
    /\ calls' = <<>>
    /\ UNCHANGED <<schedule, keyword, cache>>
    /\ DriverIdle

Init ==
    /\ schedule = PERIOD_SCHEDULE
    /\ keyword = PE_KEYWORD
    /\ cache = None
    /\ df_timetable = None
    /\ now_kst = None
    /\ pc = "load"
    /\ selected_grade = None
    /\ selected_class = None
    /\ button = FALSE
    /\ screen = {}
    /\ calls = <<>>
    /\ last = NoCall
    /\ prev = None

Next ==
    \/ LoadCached \/ LoadFile \/ LoadFail
    \/ Clock
    \/ SelectClass \/ SelectNoGrade
    \/ WeekendWarning \/ ButtonIdle \/ ButtonPressed
    \/ RightColumn
    \/ Rerun

Spec == Init /\ [][Next]_vars

\* the program driven either way: by page runs, or function by function
InitAll == Init \/ InitQuery

NextAll == Next \/ NextQuery

SpecAll == InitAll /\ [][NextAll]_vars

----------------------------------------------------------------------------
(* 7. Properties *)

\* a clock string and a time as minutes since midnight
ClockMinutes(hm) ==
    600 * DigitVal(hm[1]) + 60 * DigitVal(hm[2]) + 10 * DigitVal(hm[4]) + DigitVal(hm[5])
NowMinutes(now) == 60 * now.hour + now.minute

\* start <= t < end
Matches(window, now) ==
    /\ ClockMinutes(window.start) <= NowMinutes(now)
    /\ NowMinutes(now) < ClockMinutes(window.end)

\* the indices of the windows of the schedule that hold the time
Matching(now) == {i \in 1..Len(schedule) : Matches(schedule[i], now)}

Least(S) == CHOOSE i \in S : \A j \in S : i <= j

\* the label is the keyword with some characters before and after it
HasKeyword(subj) ==
    \E k \in 0..Len(subj) :
        /\ k + Len(PE_KEYWORD) <= Len(subj)
        /\ subj = SubSeq(subj, 1, k) \o PE_KEYWORD
                    \o SubSeq(subj, k + Len(PE_KEYWORD) + 1, Len(subj))

StrictlyAscending(s) == \A i \in 1..(Len(s) - 1) : s[i] < s[i + 1]

\* the period numbers read back from the text of a summary cell
RECURSIVE ReadPeriods(_, _, _)
ReadPeriods(cell, cur, out) ==
    IF cell = <<>> THEN out \o cur
    ELSE LET ch == Head(cell)
         IN  IF ch \in Range(Digits)
             THEN ReadPeriods(Tail(cell),
                              Some(10 * (IF cur = None THEN 0 ELSE cur[1]) + DigitVal(ch)),
                              out)
             ELSE IF ch = "gyo"
                  THEN ReadPeriods(Tail(cell), None, out \o cur)
                  ELSE ReadPeriods(Tail(cell), cur, out)

CellPeriods(cell) == ReadPeriods(cell, None, <<>>)

\* the permutations of a frame's rows
Permutations(df) ==
    {[i \in 1..Len(df) |-> df[f[i]]] :
        f \in {g \in [1..Len(df) -> 1..Len(df)] : \A i, j \in 1..Len(df) : g[i] = g[j] => i = j}}

\* frames with some rows of df repeated
Duplications(df) == {df \o df} \cup {df \o <<df[i]>> : i \in 1..Len(df)}
                        \cup {<<df[i]>> \o df : i \in 1..Len(df)}

\* C1: the resolver returns the period of the first window, in list order,
\* with start <= t < end, and None exactly when no window has
\* start <= t < end.
C1_ResolverFirstMatch ==
    last.fn = "get_period_from_now" =>
        LET M == Matching(last.args[1])
        IN  IF M = {} THEN last.res = None
            ELSE last.res = Some(schedule[Least(M)].period)

\* two windows of different periods hold the time, which is the start of
\* the first of them, and the first one wins
C1_Witness ==
    /\ last.fn = "get_period_from_now"
    /\ Cardinality(Matching(last.args[1])) = 2
    /\ \E i, j \in Matching(last.args[1]) :
          /\ i < j
          /\ schedule[i].period /= schedule[j].period
          /\ ClockMinutes(schedule[i].start) = NowMinutes(last.args[1])
          /\ last.res = Some(schedule[i].period)

\* C2: check_pe is true iff some row matches the four keys and has a subject
\* that contains the keyword, with or without characters around it; it is
\* false when no row matches the keys.
C2_CheckPeIffMatchingRow ==
    last.fn = "check_pe" =>
        LET df == df_timetable[1]
            a == last.args
        IN  last.res = (\E i \in 1..Len(df) :
                            /\ df[i].grade = a[1]
                            /\ df[i].class_no = a[2]
                            /\ df[i].weekday = a[3]
                            /\ df[i].period = a[4]
                            /\ HasKeyword(df[i].subject))

\* check_pe is true on a timetable with two rows for the key, one of another
\* subject and one whose label holds the keyword among other characters
C2_Witness ==
    /\ last.fn = "check_pe"
    /\ last.res = TRUE
    /\ LET df == df_timetable[1]
           a == last.args
           key(r) == /\ r.grade = a[1] /\ r.class_no = a[2]
                     /\ r.weekday = a[3] /\ r.period = a[4]
       IN  /\ Len(df) = 2
           /\ key(df[1]) /\ key(df[2])
           /\ ~HasKeyword(df[1].subject)
           /\ HasKeyword(df[2].subject)

\* the period numbers of the rows of df for grade, class and weekday whose
\* subject contains the keyword
PePeriods(df, g, c, w) ==
    {df[i].period : i \in {j \in 1..Len(df) :
                              /\ df[j].grade = g
                              /\ df[j].class_no = c
                              /\ df[j].weekday = w
                              /\ HasKeyword(df[j].subject)}}

\* C3: get_today_pe_periods_for_class returns a strictly ascending sequence
\* whose elements are exactly the periods of the rows matching grade, class
\* and weekday with a subject containing the keyword; the result is the same
\* for every permutation and every duplication of the rows.
C3_PeriodsAscendingDistinct ==
    last.fn = "get_today_pe_periods_for_class" =>
        LET df == df_timetable[1]
            a == last.args
        IN  /\ StrictlyAscending(last.res)
            /\ Range(last.res) = PePeriods(df, a[1], a[2], a[3])
            /\ \A df2 \in Permutations(df) \cup Duplications(df) :
                  get_today_pe_periods_for_class(df2, a[1], a[2], a[3]) = last.res

\* two PE periods of one class, listed in the timetable in descending order
C3_Witness ==
    /\ last.fn = "get_today_pe_periods_for_class"
    /\ Len(last.res) = 2
    /\ Len(df_timetable[1]) = 2
    /\ df_timetable[1][1].period > df_timetable[1][2].period

\* the (grade, class) pairs with a row of the weekday containing the keyword
PeClasses(df, w) ==
    {<<df[i].grade, df[i].class_no>> :
        i \in {j \in 1..Len(df) : df[j].weekday = w /\ HasKeyword(df[j].subject)}}

\* C4: the summary is sorted by (grade, class) ascending without a repeated
\* pair, holds a pair exactly when a row of the weekday for it contains the
\* keyword, and lists for each pair its distinct PE periods in ascending
\* order; it is empty when no row of the weekday contains the keyword.
C4_SummarySortedExact ==
    last.fn = "get_today_pe_summary" =>
        LET df == df_timetable[1]
            w == last.args[1]
            res == last.res
        IN  /\ \A i \in 1..(Len(res) - 1) :
                  \/ res[i].grade < res[i + 1].grade
                  \/ /\ res[i].grade = res[i + 1].grade
                     /\ res[i].class_no < res[i + 1].class_no
            /\ {<<res[i].grade, res[i].class_no>> : i \in 1..Len(res)} = PeClasses(df, w)
            /\ \A i \in 1..Len(res) :
                  /\ StrictlyAscending(CellPeriods(res[i].pe_periods))
                  /\ Range(CellPeriods(res[i].pe_periods))
                        = PePeriods(df, res[i].grade, res[i].class_no, w)
            /\ (PeClasses(df, w) = {} => res = <<>>)

\* a summary of two classes whose rows come in descending (grade, class)
\* order in the timetable
C4_Witness ==
    /\ last.fn = "get_today_pe_summary"
    /\ Len(last.res) = 2
    /\ Len(df_timetable[1]) = 2
    /\ df_timetable[1][1].grade < df_timetable[1][2].grade
    /\ df_timetable[1][1].class_no > df_timetable[1][2].class_no

\* the elements of the page that give a verdict on the current period
Verdicts == {"pe_now", "not_pe_now"}

\* the core calls of the run made to fn
CallsOf(fn) == {i \in 1..Len(calls) : calls[i].fn = fn}

\* C5: after a load failure the error is shown and the run halts: the
\* resolver and the queries are not called and no grade or class is
\* selected, from this or an earlier load.
C5_LoadFailureHalts ==
    "load_error" \in screen =>
        /\ pc = "stopped"
        /\ calls = <<>>
        /\ selected_grade = None /\ selected_class = None
        /\ df_timetable = None /\ cache = None
        /\ screen = {"load_error"}

\* a run stopped by a load failure
C5_Witness == pc = "stopped" /\ "load_error" \in screen

\* C6: on Saturday and Sunday no run calls the resolver or a query, whatever
\* class is selected, and the weekend notices are shown instead.
C6_WeekendNoLookup ==
    (now_kst /= None /\ now_kst[1].weekday \in {5, 6}) =>
        /\ calls = <<>>
        /\ "weekend_note" \in screen
        /\ screen \cap (Verdicts \cup {"period_note", "no_period_note",
                "no_period_warning", "pe_periods_today", "no_pe_today",
                "no_pe_summary", "summary_table"}) = {}
        /\ pc \in {"summary", "done"} => "weekend_warning" \in screen
        /\ pc = "done" => "weekend_summary" \in screen

\* a finished Sunday run with a class selected on a timetable with PE rows
C6_Witness ==
    /\ pc = "done"
    /\ now_kst /= None /\ now_kst[1].weekday = 6
    /\ selected_grade = Some(1) /\ selected_class = Some(2)
    /\ \E i \in 1..Len(df_timetable[1]) : HasKeyword(df_timetable[1][i].subject)

\* the run is on a school day and the resolver returned None
NoPeriodRun ==
    /\ now_kst /= None /\ now_kst[1].weekday \in 0..4
    /\ CallsOf("get_period_from_now") /= {}
    /\ \A i \in CallsOf("get_period_from_now") : calls[i].res = None

\* C7: on a school day outside every window the run shows the explanation,
\* never calls check_pe, shows no verdict, and runs to completion with the
\* summary of the day produced.
C7_NoPeriodRunCompletes ==
    (NoPeriodRun /\ Ended) =>
        /\ "no_period_note" \in screen
        /\ CallsOf("check_pe") = {}
        /\ screen \cap Verdicts = {}
        /\ pc = "done"
        /\ CallsOf("get_today_pe_summary") /= {}
        /\ screen \cap {"no_pe_summary", "summary_table"} /= {}

\* what holds of C7 on every timetable: the explanation, no check_pe call,
\* no verdict; and the run completes with the summary when the timetable
\* has a row
C7_ExceptOnEmptyTimetable ==
    NoPeriodRun =>
        /\ "no_period_note" \in screen
        /\ CallsOf("check_pe") = {}
        /\ screen \cap Verdicts = {}
        /\ button /\ pc \in {"summary", "done"} => "no_period_warning" \in screen
        /\ (Ended /\ df_timetable[1] /= <<>>) =>
              /\ pc = "done"
              /\ CallsOf("get_today_pe_summary") /= {}
              /\ screen \cap {"no_pe_summary", "summary_table"} /= {}

\* a finished school-day run outside every window, with the button pressed
C7_ExceptWitness ==
    NoPeriodRun /\ pc = "done" /\ button /\ "summary_table" \in screen

\* the result of a recorded call on frame df under the configuration
ResultOn(df, call) ==
    LET a == call.args
    IN  CASE call.fn = "get_period_from_now" ->
                ScanSchedule(PERIOD_SCHEDULE, 1, TimeOf(a[1]))
          [] call.fn = "check_pe" -> check_pe(df, a[1], a[2], a[3], a[4])
          [] call.fn = "get_today_pe_summary" -> get_today_pe_summary(df, a[1])
          [] call.fn = "get_today_pe_periods_for_class" ->
                get_today_pe_periods_for_class(df, a[1], a[2], a[3])

\* C8: a call of the resolver or of a query leaves the timetable, the
\* schedule and the keyword as they are; so a call, after any calls before
\* it, returns what it returns on the timetable as loaded, and the same call
\* made again returns the same result.
C8_CallsChangeNothing ==
    [][ /\ df_timetable' = df_timetable
        /\ schedule' = schedule
        /\ keyword' = keyword
        /\ last'.res = ResultOn(cache[1], last')
        /\ prev' /= None => prev' = Some(last'.res) ]_vars

\* a summary with rows, asked for twice in a row
C8_Witness ==
    /\ last.fn = "get_today_pe_summary"
    /\ last.res /= <<>>
    /\ prev = Some(last.res)

\* C9: the configured windows have start < end, come in ascending order and
\* do not overlap, so that at most one of them holds any time of day and
\* every one that does gives the resolver's result.
C9_ConfiguredWindowsDisjoint ==
    schedule = PERIOD_SCHEDULE =>
        /\ \A i \in 1..Len(schedule) :
              ClockMinutes(schedule[i].start) < ClockMinutes(schedule[i].end)
        /\ \A i \in 1..(Len(schedule) - 1) :
              ClockMinutes(schedule[i].end) <= ClockMinutes(schedule[i + 1].start)
        /\ last.fn = "get_period_from_now" =>
              /\ Cardinality(Matching(last.args[1])) <= 1
              /\ \A i \in Matching(last.args[1]) : last.res = Some(schedule[i].period)

\* the configured schedule resolves 13:40, the first minute after the
\* longest gap, to period 5
C9_Witness ==
    /\ schedule = PERIOD_SCHEDULE
    /\ last.fn = "get_period_from_now"
    /\ NowMinutes(last.args[1]) = 820
    /\ last.res = Some(5)

\* C10: check_pe(g, c, w, p) is true iff p is one of
\* get_today_pe_periods_for_class(g, c, w); (g, c) has a row in
\* get_today_pe_summary(w) iff that list is not empty, and the row's cell
\* reads as the same list; a page never shows a positive verdict together
\* with the notice that the class has no PE that day.
C10_QueriesAgree ==
    /\ last.fn = "check_pe" =>
          LET a == last.args
          IN  last.res = (a[4] \in Range(get_today_pe_periods_for_class(
                                            df_timetable[1], a[1], a[2], a[3])))
    /\ last.fn = "get_today_pe_periods_for_class" =>
          LET a == last.args
              summary == get_today_pe_summary(df_timetable[1], a[3])
              rows == {i \in 1..Len(summary) :
                          summary[i].grade = a[1] /\ summary[i].class_no = a[2]}
          IN  /\ (rows /= {}) = (last.res /= <<>>)
              /\ \A i \in rows : CellPeriods(summary[i].pe_periods) = last.res
    /\ ~({"pe_now", "no_pe_today"} \subseteq screen)
    /\ (pc = "done" /\ "pe_now" \in screen) =>
          \E i \in CallsOf("get_today_pe_summary") :
             \E k \in 1..Len(calls[i].res) :
                /\ Some(calls[i].res[k].grade) = selected_grade
                /\ Some(calls[i].res[k].class_no) = selected_class

\* a finished page run with a positive verdict, the PE periods of the class
\* and the summary table
C10_Witness ==
    /\ pc = "done"
    /\ {"pe_now", "pe_periods_today", "summary_table"} \subseteq screen

====
